---- MODULE Spec2Model ----
(***************************************************************************)
(* Model of pkg/composegen/composegen.go: GenerateComposeFile and the      *)
(* helpers it calls.  A step of the model holds at most one call to the    *)
(* container runtime (ContainerList, ContainerInspect, NetworkList,        *)
(* NetworkInspect), and every such call can succeed or fail.               *)
(*                                                                         *)
(* Strings are sequences of one-character strings, so that slicing         *)
(* (Names[0][1:]), regular-expression matching and sort.Strings are        *)
(* computed on the characters.  A value stored in an interface{} is a      *)
(* record [t |-> dynamic type, v |-> value]: Go's == on interfaces         *)
(* compares the dynamic type first.                                        *)
(***************************************************************************)
EXTENDS Integers, Sequences, FiniteSets, TLC

\* ------------------------------------------------------------------ bounds
\* Largest number of containers the runtime lists.
MaxContainers == 3

\* ----------------------------------------------------------------- strings
\* The characters in use, in byte order.
Alphabet == <<"(", ",", "/", "1", "2", ":", "=", "W", "^", "a", "b", "d", "e",
              "f", "h", "i", "l", "m", "n", "o", "p", "r", "s", "t", "u", "v",
              "w">>

Ord(ch) == CHOOSE i \in 1..Len(Alphabet) : Alphabet[i] = ch

\* a < b for Go strings (byte-wise lexicographic order).
RECURSIVE StrLess(_, _)
StrLess(a, b) ==
    IF b = <<>> THEN FALSE
    ELSE IF a = <<>> THEN TRUE
    ELSE IF Head(a) = Head(b) THEN StrLess(Tail(a), Tail(b))
    ELSE Ord(Head(a)) < Ord(Head(b))

IsPrefix(p, s) == Len(p) <= Len(s) /\ SubSeq(s, 1, Len(p)) = p

IsSubstring(p, s) ==
    \E i \in 0..(Len(s) - Len(p)) : SubSeq(s, i + 1, i + Len(p)) = p

Colon == <<":">>

\* ------------------------------------------------ values held in interface{}
V(t, v) == [t |-> t, v |-> v]

\* value == iv on two interface{} values: equal dynamic types and equal
\* values.  (Equal dynamic types of slice or map kind would panic; the values
\* generate builds never have the types []interface{} or
\* map[string]interface{}, so that case does not arise.)
IfaceEq(a, b) == a.t = b.t /\ a.v = b.v

ignoreValues ==
    << V("nil", "nil"),
       V("string", <<>>),
       V("[]interface{}", <<>>),
       V("string", <<"n", "u", "l", "l">>),
       V("map[string]interface{}", <<>>),
       V("string", <<"d", "e", "f", "a", "u", "l", "t">>),
       V("int", 0),
       V("string", <<",">>),
       V("string", <<"n", "o">>) >>

isIgnoredValue(value) ==
    \E i \in 1..Len(ignoreValues) : IfaceEq(value, ignoreValues[i])

\* ---------------------------------------------------------------- the host
bridge  == <<"b", "r">>
backend == <<"b", "e">>

\* NetworkInspect results, by network name.
NetworkResources ==
    << [Name |-> bridge,  Scope |-> <<"l">>, Driver |-> <<"b">>,
        EnableIPv6 |-> FALSE, Internal |-> FALSE,
        IPAM |-> [Driver |-> <<"d">>, Config |-> << <<"s", "1">> >>]],
       [Name |-> backend, Scope |-> <<"l">>, Driver |-> <<"o">>,
        EnableIPv6 |-> TRUE,  Internal |-> TRUE,
        IPAM |-> [Driver |-> <<"d">>, Config |-> <<>>]] >>

NetworkNamesAll == {NetworkResources[i].Name : i \in 1..Len(NetworkResources)}

NetworkResource(n) ==
    NetworkResources[CHOOSE i \in 1..Len(NetworkResources) :
                        NetworkResources[i].Name = n]

Mount(type, name, source, destination) ==
    [Type |-> type, Name |-> name, Source |-> source, Destination |-> destination]

Binding(ip, port) == [HostIP |-> ip, HostPort |-> port]

NoMap == [x \in {} |-> <<>>]

\* ContainerInspect results (types.ContainerJSON), in the order of the
\* runtime's listing.  Names carry the runtime's leading "/".
ContainerRecords ==
    << [ID |-> <<"a", "1">>, Name |-> <<"/", "w", "e", "b", "1">>,
        Image |-> <<"n", "1">>,
        Labels |-> NoMap, Env |-> <<>>, Cmd |-> <<>>, Entrypoint |-> <<>>,
        WorkingDir |-> <<>>, User |-> <<>>,
        Hostname |-> <<"h", "1">>, Domainname |-> <<>>,
        NetworkMode |-> <<"d", "e", "f", "a", "u", "l", "t">>,
        Networks |-> {bridge, backend},
        PortBindings |-> NoMap,
        Privileged |-> FALSE, RestartName |-> <<"n", "o">>,
        Tty |-> FALSE, OpenStdin |-> FALSE,
        Mounts |-> << Mount(<<"v", "o", "l", "u", "m", "e">>, <<"d", "b">>,
                            <<"/", "v", "/", "d", "b">>, <<"/", "d">>),
                      Mount(<<"b", "i", "n", "d">>, <<>>,
                            <<"/", "a">>, <<"/", "b">>) >> ],
      [ID |-> <<"a", "2">>, Name |-> <<"/", "w", "e", "b", "2">>,
        Image |-> <<"n", "2">>,
        Labels |-> (<<"l">> :> <<"1">>), Env |-> << <<"e", "=", "1">> >>,
        Cmd |-> << <<"r", "u", "n">> >>, Entrypoint |-> << <<"s", "h">> >>,
        WorkingDir |-> <<"/", "w">>, User |-> <<"u">>,
        Hostname |-> <<"n", "u", "l", "l">>, Domainname |-> <<",">>,
        NetworkMode |-> <<"h", "o", "s", "t">>,
        Networks |-> {bridge},
        PortBindings |-> (<<"2">> :> << Binding(<<>>, <<"1">>),
                                        Binding(<<"i">>, <<"2">>) >>)
                         @@ (<<"1">> :> << Binding(<<>>, <<"2">>) >>),
        Privileged |-> TRUE, RestartName |-> <<"a", "l">>,
        Tty |-> TRUE, OpenStdin |-> TRUE,
        Mounts |-> << Mount(<<"t", "m", "p", "f", "s">>, <<>>,
                            <<>>, <<"/", "t">>),
                      Mount(<<"b", "i", "n", "d">>, <<>>,
                            <<"/", "h">>, <<"/", "b">>),
                      Mount(<<"v", "o", "l", "u", "m", "e">>, <<"a">>,
                            <<"/", "v", "/", "a">>, <<"/", "d">>) >> ],
      [ID |-> <<"b", "1">>, Name |-> <<"/", "d", "b", "1">>,
        Image |-> <<"d", "b">>,
        Labels |-> NoMap, Env |-> <<>>, Cmd |-> <<>>, Entrypoint |-> <<>>,
        WorkingDir |-> <<>>, User |-> <<"n", "o">>,
        Hostname |-> <<"d", "b", "1">>, Domainname |-> <<>>,
        NetworkMode |-> <<"d", "e", "f", "a", "u", "l", "t">>,
        Networks |-> {},
        PortBindings |-> NoMap,
        Privileged |-> FALSE, RestartName |-> <<>>,
        Tty |-> FALSE, OpenStdin |-> FALSE,
        Mounts |-> <<>> ],
      [ID |-> <<"b", "2">>, Name |-> <<"/", "W", "e", "b", "1">>,
        Image |-> <<"n", "1">>,
        Labels |-> NoMap, Env |-> << <<"e", "=", "2">> >>,
        Cmd |-> <<>>, Entrypoint |-> <<>>,
        WorkingDir |-> <<>>, User |-> <<>>,
        Hostname |-> <<"d", "e", "f", "a", "u", "l", "t">>, Domainname |-> <<>>,
        NetworkMode |-> <<"n", "o", "n", "e">>,
        Networks |-> {},
        PortBindings |-> (<<"1">> :> << Binding(<<>>, <<"1">>) >>),
        Privileged |-> FALSE, RestartName |-> <<"n", "o">>,
        Tty |-> FALSE, OpenStdin |-> FALSE,
        Mounts |-> << Mount(<<"b", "i", "n", "d">>, <<>>,
                            <<"/", "a">>, <<"/", "b">>) >> ] >>

\* ----------------------------------------------------------- pure helpers
\* container.Names[0][1:] and cattrs.Name[1:]: the name without its first byte.
DisplayName(name) == Tail(name)

\* sort.Strings: insertion of each element into an ascending list.
RECURSIVE InsertSorted(_, _)
InsertSorted(x, sorted) ==
    IF sorted = <<>> THEN <<x>>
    ELSE IF StrLess(x, Head(sorted)) THEN <<x>> \o sorted
    ELSE <<Head(sorted)>> \o InsertSorted(x, Tail(sorted))

RECURSIVE SortStrings(_)
SortStrings(list) ==
    IF list = <<>> THEN <<>>
    ELSE InsertSorted(Head(list), SortStrings(Tail(list)))

\* The string generateVolumes appends for one mount.
renderMount(mount, cv) ==
    IF mount.Type = <<"v", "o", "l", "u", "m", "e">> /\ cv
    THEN mount.Name \o Colon \o mount.Destination
    ELSE IF mount.Type = <<"b", "i", "n", "d">>
    THEN mount.Source \o Colon \o mount.Destination
    ELSE <<>>

\* generateVolumes without the call of sort.Strings.
generateVolumesUnsorted(mounts, cv) ==
    [i \in 1..Len(mounts) |-> renderMount(mounts[i], cv)]

generateVolumes(mounts, cv) ==
    SortStrings([i \in 1..Len(mounts) |-> renderMount(mounts[i], cv)])

\* NetworkMode.IsDefault()
IsDefault(mode) == mode = <<"d", "e", "f", "a", "u", "l", "t">>

\* getNetworkMode returning the mode string in every case.
getNetworkModeVerbatim(cattrs) == {cattrs.NetworkMode}

\* getNetworkMode: the set of strings it can return.  Ranging over the
\* Networks map yields its keys in an unspecified order, so with the default
\* mode any attached network can be the one returned.
getNetworkMode(cattrs) ==
    IF IsDefault(cattrs.NetworkMode) /\ cattrs.Networks # {}
    THEN cattrs.Networks
    ELSE {cattrs.NetworkMode}

\* The strings getPorts appends for one port of PortBindings.
RECURSIVE portStrings(_, _)
portStrings(port, bindings) ==
    IF bindings = <<>> THEN <<>>
    ELSE LET b == Head(bindings)
             hostPort == IF b.HostIP # <<>> THEN b.HostIP \o Colon \o b.HostPort
                         ELSE b.HostPort
         IN  << hostPort \o Colon \o port >> \o portStrings(port, Tail(bindings))

\* getPorts, ranging over the PortBindings map in the order `order`.
RECURSIVE getPorts(_, _)
getPorts(cattrs, order) ==
    IF order = <<>> THEN <<>>
    ELSE portStrings(Head(order), cattrs.PortBindings[Head(order)])
         \o getPorts(cattrs, Tail(order))

\* The orders in which a range over a map with these keys can yield them.
Orders(keys) ==
    {o \in [1..Cardinality(keys) -> keys] :
        \A i, j \in 1..Cardinality(keys) : i # j => o[i] # o[j]}

Keys == {"container_name", "image", "labels", "volumes", "environment",
         "command", "entrypoint", "working_dir", "user", "hostname",
         "domainname", "network_mode", "ports", "privileged", "restart",
         "tty", "stdin_open"}

\* The values map of generate, with the dynamic type of each value.
\* (HostConfig.RestartPolicy.Name is a container.RestartPolicyMode, Cmd and
\* Entrypoint are strslice.StrSlice.)
buildValues(cattrs, cv, nmode, ports) ==
    [container_name |-> V("string", DisplayName(cattrs.Name)),
     image          |-> V("string", cattrs.Image),
     labels         |-> V("map[string]string", cattrs.Labels),
     volumes        |-> V("[]string", generateVolumes(cattrs.Mounts, cv)),
     environment    |-> V("[]string", cattrs.Env),
     command        |-> V("strslice.StrSlice", cattrs.Cmd),
     entrypoint     |-> V("strslice.StrSlice", cattrs.Entrypoint),
     working_dir    |-> V("string", cattrs.WorkingDir),
     user           |-> V("string", cattrs.User),
     hostname       |-> V("string", cattrs.Hostname),
     domainname     |-> V("string", cattrs.Domainname),
     network_mode   |-> V("string", nmode),
     ports          |-> V("[]string", ports),
     privileged     |-> V("bool", cattrs.Privileged),
     restart        |-> V("container.RestartPolicyMode", cattrs.RestartName),
     tty            |-> V("bool", cattrs.Tty),
     stdin_open     |-> V("bool", cattrs.OpenStdin)]

\* "Removing default or ignored values": the record ct.
removeIgnored(vals) ==
    [k \in {key \in Keys : ~isIgnoredValue(vals[key])} |-> vals[k]]

\* The stub with external set to Internal instead of !Internal.
networkStubInternal(networkName, networkResource) ==
    [external |-> networkResource.Internal, name |-> networkName]

\* The stub generate records for one attached network.
networkStub(networkName, networkResource) ==
    [external |-> ~networkResource.Internal, name |-> networkName]

\* The values generateNetworkInfo records for one network.
networkDetail(networkResource) ==
    [name        |-> networkResource.Name,
     scope       |-> networkResource.Scope,
     driver      |-> networkResource.Driver,
     enable_ipv6 |-> networkResource.EnableIPv6,
     internal    |-> networkResource.Internal,
     ipam        |-> [driver |-> networkResource.IPAM.Driver,
                      config |-> networkResource.IPAM.Config]]

\* regexp.Compile on the patterns in use: a literal with an optional leading
\* "^"; an unbalanced "(" does not compile.
regexpCompile(pattern) ==
    IF \E i \in 1..Len(pattern) : pattern[i] = "("
    THEN [ok |-> FALSE, anchored |-> FALSE, lit |-> <<>>]
    ELSE IF pattern # <<>> /\ Head(pattern) = "^"
    THEN [ok |-> TRUE, anchored |-> TRUE, lit |-> Tail(pattern)]
    ELSE [ok |-> TRUE, anchored |-> FALSE, lit |-> pattern]

\* filterRegex.MatchString(name)
MatchString(re, name) ==
    IF re.anchored THEN IsPrefix(re.lit, name) ELSE IsSubstring(re.lit, name)

\* The filter loop leaving at the first name that does not match.
RECURSIVE filterNamesBreak(_, _)
filterNamesBreak(re, names) ==
    IF names = <<>> THEN <<>>
    ELSE IF MatchString(re, Head(names))
    THEN <<Head(names)>> \o filterNamesBreak(re, Tail(names))
    ELSE <<>>

\* The loop that keeps the names the pattern matches.
RECURSIVE filterNames(_, _)
filterNames(re, names) ==
    IF names = <<>> THEN <<>>
    ELSE (IF MatchString(re, Head(names)) THEN <<Head(names)>> ELSE <<>>)
         \o filterNames(re, Tail(names))

\* listContainerNames on a successful listing.
listContainerNames(listing) ==
    [i \in 1..Len(listing) |-> DisplayName(listing[i].Name)]

\* The ID generate resolves cname to: the first listed container whose
\* display name or ID is cname; "" when there is none.
RECURSIVE resolveID(_, _)
resolveID(listing, cname) ==
    IF listing = <<>> THEN <<>>
    ELSE IF DisplayName(Head(listing).Name) = cname \/ Head(listing).ID = cname
    THEN Head(listing).ID
    ELSE resolveID(Tail(listing), cname)

\* Marshal of a Config whose networks field is not tagged omitempty.
renderNetworksAlways(config) ==
    << [key |-> "version", value |-> config.Version],
       [key |-> "services", value |-> config.Services],
       [key |-> "networks", value |-> config.Networks] >>
    \o (IF DOMAIN config.Volumes # {}
        THEN << [key |-> "volumes", value |-> config.Volumes] >> ELSE <<>>)

\* yaml.Marshal of Config: the top-level sections in field order; a field
\* tagged omitempty is left out when its map is empty.
render(config) ==
    << [key |-> "version", value |-> config.Version],
       [key |-> "services", value |-> config.Services] >>
    \o (IF DOMAIN config.Networks # {}
        THEN << [key |-> "networks", value |-> config.Networks] >> ELSE <<>>)
    \o (IF DOMAIN config.Volumes # {}
        THEN << [key |-> "volumes", value |-> config.Volumes] >> ELSE <<>>)

\* ------------------------------------------------------------------- state
VARIABLES
    includeAllContainers, containerFilter, createVolumes, \* the arguments
    containers,      \* the runtime's containers, in listing order
    hostNetworks,    \* the names of the runtime's networks, in listing order
    pc,              \* position in GenerateComposeFile
    containerNames,  \* GenerateComposeFile: the names to process
    idx,             \* GenerateComposeFile: position of the loop over them
    structure, networks, volumes,          \* GenerateComposeFile: accumulators
    containerID, cattrs, values, cNetworks,   \* generate: locals
    pending,         \* generate: attached networks the range has yet to yield
    netIdx, netInfo, \* generateNetworkInfo: loop position and its networks map
    result,          \* what GenerateComposeFile returned
    calls,           \* the runtime calls issued so far, in order
    logged,          \* the lines written with log.Printf, in order
    built            \* display name -> the values map generate built for it

vars == <<includeAllContainers, containerFilter, createVolumes, containers,
          hostNetworks, pc, containerNames, idx, structure, networks, volumes,
          containerID, cattrs, values, cNetworks, pending, netIdx, netInfo,
          result, calls, logged, built>>

args == <<includeAllContainers, containerFilter, createVolumes>>
host == <<containers, hostNetworks>>
genLocals == <<containerID, cattrs, values, cNetworks, pending>>
accumulators == <<structure, networks, volumes>>
infoLocals == <<netIdx, netInfo>>

\* The filters tried: none, an anchored literal, an unanchored literal, and a
\* pattern that does not compile.
Filters == { <<>>, <<"^", "w", "e", "b">>, <<"b", "1">>, <<"(">> }

\* The listings a runtime with at most MaxContainers containers can give.
ContainerListings ==
    { SelectSeq(ContainerRecords, LAMBDA c : c.ID \in ids) :
        ids \in { S \in SUBSET {ContainerRecords[i].ID :
                                   i \in 1..Len(ContainerRecords)} :
                    Cardinality(S) <= MaxContainers } }

Attached(listing) == UNION {listing[i].Networks : i \in 1..Len(listing)}

\* at: 0 for a call of GenerateComposeFile before its loop, i for a call made
\* while the i-th name is processed, -1 for a call of generateNetworkInfo.
Call(call, arg, at, ok) == [call |-> call, arg |-> arg, at |-> at, ok |-> ok]

Running == [status |-> "running", err |-> "", out |-> <<>>]
\* return "", err
Failure(err) == [status |-> "error", err |-> err, out |-> <<>>]
\* return string(out), nil
Success(out) == [status |-> "ok", err |-> "", out |-> out]

Init ==
    /\ includeAllContainers \in BOOLEAN
    /\ containerFilter \in Filters
    /\ createVolumes \in BOOLEAN
    /\ containers \in ContainerListings
    /\ hostNetworks \in
         { SelectSeq([i \in 1..Len(NetworkResources) |-> NetworkResources[i].Name],
                     LAMBDA n : n \in N) :
             N \in { S \in SUBSET NetworkNamesAll : Attached(containers) \subseteq S } }
    /\ pc = "list"
    /\ containerNames = <<>>
    /\ idx = 1
    /\ structure = NoMap
    /\ networks = NoMap
    /\ volumes = NoMap
    /\ containerID = <<>>
    /\ cattrs = <<>>
    /\ values = <<>>
    /\ cNetworks = NoMap
    /\ pending = {}
    /\ netIdx = 1
    /\ netInfo = NoMap
    /\ result = Running
    /\ calls = <<>>
    /\ logged = <<>>
    /\ built = NoMap

\* ----------------------------------------------------------------- actions
\* The first listing with its error dropped: the loop runs over no names.
ListContainerNamesTolerant ==
    /\ pc = "list"
    /\ \E ok \in BOOLEAN :
         /\ calls' = Append(calls, Call("ContainerList", <<>>, 0, ok))
         /\ containerNames' = IF ok THEN listContainerNames(containers) ELSE <<>>
         /\ pc' = "filter"
    /\ UNCHANGED <<args, host, idx, accumulators, genLocals, infoLocals,
                   result, logged, built>>

\* containerNames, err := listContainerNames(cli)
ListContainerNames ==
    /\ pc = "list"
    /\ \E ok \in BOOLEAN :
         /\ calls' = Append(calls, Call("ContainerList", <<>>, 0, ok))
         /\ IF ok
            THEN /\ containerNames' = listContainerNames(containers)
                 /\ pc' = "filter"
                 /\ UNCHANGED result
            ELSE /\ result' = Failure("runtime")
                 /\ pc' = "done"
                 /\ UNCHANGED containerNames
    /\ UNCHANGED <<args, host, idx, accumulators, genLocals, infoLocals,
                   logged, built>>

\* The filter step treating a pattern that does not compile as matching
\* nothing.
ApplyFilterSkipInvalid ==
    /\ pc = "filter"
    /\ containerNames' =
         IF containerFilter = <<>> THEN containerNames
         ELSE IF ~regexpCompile(containerFilter).ok THEN <<>>
         ELSE filterNames(regexpCompile(containerFilter), containerNames)
    /\ pc' = "loop"
    /\ UNCHANGED <<args, host, idx, accumulators, genLocals, infoLocals,
                   result, calls, logged, built>>

\* if containerFilter != "" { ... }
ApplyFilter ==
    /\ pc = "filter"
    /\ IF containerFilter # <<>>
       THEN LET filterRegex == regexpCompile(containerFilter) IN
            IF ~filterRegex.ok
            THEN /\ result' = Failure("invalid filter regex")
                 /\ pc' = "done"
                 /\ UNCHANGED containerNames
            ELSE /\ containerNames' = filterNames(filterRegex, containerNames)
                 /\ pc' = "loop"
                 /\ UNCHANGED result
       ELSE /\ pc' = "loop"
            /\ UNCHANGED <<containerNames, result>>
    /\ UNCHANGED <<args, host, idx, accumulators, genLocals, infoLocals,
                   calls, logged, built>>

\* The caller's handling of an error from generate: log it and continue.
SkipContainer(cname) ==
    /\ logged' = Append(logged, [what |-> "container", name |-> cname])
    /\ idx' = idx + 1
    /\ pc' = "loop"

\* generate: the listing and the resolution of cname to an ID.  The listing
\* can fail, or succeed without the container when it was removed since the
\* first listing.
GenerateList ==
    /\ pc = "loop"
    /\ idx <= Len(containerNames)
    /\ LET cname == containerNames[idx] IN
       \E outcome \in {"ok", "gone", "fail"} :
         /\ calls' = Append(calls, Call("ContainerList", <<>>, idx, outcome # "fail"))
         /\ IF outcome = "fail"
            THEN SkipContainer(cname) /\ UNCHANGED containerID
            ELSE LET listing == IF outcome = "gone"
                                THEN SelectSeq(containers,
                                        LAMBDA c : DisplayName(c.Name) # cname)
                                ELSE containers
                     id == resolveID(listing, cname)
                 IN  IF id = <<>>
                     THEN SkipContainer(cname) /\ UNCHANGED containerID
                     ELSE /\ containerID' = id
                          /\ pc' = "inspect"
                          /\ UNCHANGED <<idx, logged>>
    /\ UNCHANGED <<args, host, containerNames, accumulators, cattrs, values,
                   cNetworks, pending, infoLocals, result, built>>

\* generate: cli.ContainerInspect and the values map.
GenerateInspect ==
    /\ pc = "inspect"
    /\ \E ok \in BOOLEAN :
         /\ calls' = Append(calls, Call("ContainerInspect", containerID, idx, ok))
         /\ IF ok
            THEN LET c == containers[CHOOSE i \in 1..Len(containers) :
                                        containers[i].ID = containerID] IN
                 /\ cattrs' = c
                 /\ \E nmode \in getNetworkMode(c) :
                    \E order \in Orders(DOMAIN c.PortBindings) :
                      values' = buildValues(c, createVolumes, nmode,
                                            getPorts(c, order))
                 /\ cNetworks' = NoMap
                 /\ pending' = c.Networks
                 /\ pc' = "stubs"
                 /\ UNCHANGED <<idx, logged>>
            ELSE /\ SkipContainer(containerNames[idx])
                 /\ UNCHANGED <<cattrs, values, cNetworks, pending>>
    /\ UNCHANGED <<args, host, containerNames, accumulators, containerID,
                   infoLocals, result, built>>

\* generate: one iteration of the range over cattrs.NetworkSettings.Networks.
GenerateNetworkStub ==
    /\ pc = "stubs"
    /\ \E networkName \in pending :
       \E ok \in BOOLEAN :
         /\ calls' = Append(calls, Call("NetworkInspect", networkName, idx, ok))
         /\ pending' = pending \ {networkName}
         /\ IF ok
            THEN /\ cNetworks' =
                      (networkName :> networkStub(networkName,
                                                  NetworkResource(networkName)))
                      @@ cNetworks
                 /\ UNCHANGED logged
            ELSE /\ logged' = Append(logged, [what |-> "network",
                                              name |-> networkName])
                 /\ UNCHANGED cNetworks
    /\ UNCHANGED <<args, host, pc, containerNames, idx, accumulators,
                   containerID, cattrs, values, infoLocals, result, built>>

\* The third map generate returns (nil).
generatedVolumes == NoMap

\* generate: the removal of ignored values and the return; then the caller's
\* merge of the three maps.
GenerateReturn ==
    /\ pc = "stubs"
    /\ pending = {}
    /\ LET ct == removeIgnored(values)
           cfile == DisplayName(cattrs.Name) :> ct
       IN  /\ structure' = cfile @@ structure
           /\ networks' = cNetworks @@ networks
           /\ volumes' = generatedVolumes @@ volumes
           /\ built' = (DisplayName(cattrs.Name) :> values) @@ built
    /\ idx' = idx + 1
    /\ pc' = "loop"
    /\ UNCHANGED <<args, host, containerNames, genLocals, infoLocals, result,
                   calls, logged>>

\* The end of the loop over containerNames: if includeAllContainers { ... }
LoopDone ==
    /\ pc = "loop"
    /\ idx > Len(containerNames)
    /\ pc' = IF includeAllContainers THEN "netlist" ELSE "render"
    /\ UNCHANGED <<args, host, containerNames, idx, accumulators, genLocals,
                   infoLocals, result, calls, logged, built>>

\* generateNetworkInfo: listNetworkNames.
ListNetworkNames ==
    /\ pc = "netlist"
    /\ \E ok \in BOOLEAN :
         /\ calls' = Append(calls, Call("NetworkList", <<>>, -1, ok))
         /\ IF ok
            THEN /\ netIdx' = 1
                 /\ netInfo' = NoMap
                 /\ pc' = "netinspect"
                 /\ UNCHANGED result
            ELSE /\ result' = Failure("error generating network info")
                 /\ pc' = "done"
                 /\ UNCHANGED infoLocals
    /\ UNCHANGED <<args, host, containerNames, idx, accumulators, genLocals,
                   logged, built>>

\* The loop of generateNetworkInfo logging a failed inspection and going on,
\* as generate does.
NetworkInfoInspectTolerant ==
    /\ pc = "netinspect"
    /\ netIdx <= Len(hostNetworks)
    /\ LET networkName == hostNetworks[netIdx] IN
       \E ok \in BOOLEAN :
         /\ calls' = Append(calls, Call("NetworkInspect", networkName, -1, ok))
         /\ netIdx' = netIdx + 1
         /\ IF ok
            THEN /\ netInfo' = (networkName :>
                                  networkDetail(NetworkResource(networkName)))
                               @@ netInfo
                 /\ UNCHANGED logged
            ELSE /\ logged' = Append(logged, [what |-> "network",
                                              name |-> networkName])
                 /\ UNCHANGED netInfo
    /\ UNCHANGED <<args, host, pc, containerNames, idx, accumulators,
                   genLocals, result, built>>

\* generateNetworkInfo: one iteration of the loop over networkNames.
NetworkInfoInspect ==
    /\ pc = "netinspect"
    /\ netIdx <= Len(hostNetworks)
    /\ LET networkName == hostNetworks[netIdx] IN
       \E ok \in BOOLEAN :
         /\ calls' = Append(calls, Call("NetworkInspect", networkName, -1, ok))
         /\ IF ok
            THEN /\ netInfo' = (networkName :>
                                  networkDetail(NetworkResource(networkName)))
                               @@ netInfo
                 /\ netIdx' = netIdx + 1
                 /\ UNCHANGED <<pc, result>>
            ELSE /\ result' = Failure("error generating network info")
                 /\ pc' = "done"
                 /\ UNCHANGED infoLocals
    /\ UNCHANGED <<args, host, containerNames, idx, accumulators, genLocals,
                   logged, built>>

\* The host networks merged under the stubs instead of replacing them.
NetworkInfoReturnMerge ==
    /\ pc = "netinspect"
    /\ netIdx > Len(hostNetworks)
    /\ networks' = networks @@ netInfo
    /\ pc' = "render"
    /\ UNCHANGED <<args, host, containerNames, idx, structure, volumes,
                   genLocals, infoLocals, result, calls, logged, built>>

\* generateNetworkInfo returns; networks = hostNetworks.
NetworkInfoReturn ==
    /\ pc = "netinspect"
    /\ netIdx > Len(hostNetworks)
    /\ networks' = netInfo
    /\ pc' = "render"
    /\ UNCHANGED <<args, host, containerNames, idx, structure, volumes,
                   genLocals, infoLocals, result, calls, logged, built>>

\* config := Config{...}; return render(config)
Render ==
    /\ pc = "render"
    /\ result' = Success(render([Version |-> "3.6", Services |-> structure,
                                 Networks |-> networks, Volumes |-> volumes]))
    /\ pc' = "done"
    /\ UNCHANGED <<args, host, containerNames, idx, accumulators, genLocals,
                   infoLocals, calls, logged, built>>

Next ==
    \/ ListContainerNames
    \/ ApplyFilter
    \/ GenerateList
    \/ GenerateInspect
    \/ GenerateNetworkStub
    \/ GenerateReturn
    \/ LoopDone
    \/ ListNetworkNames
    \/ NetworkInfoInspect
    \/ NetworkInfoReturn
    \/ Render

Spec == Init /\ [][Next]_vars

\* ------------------------------------------------------------------ claims
Done == pc = "done"
Succeeded == pc = "done" /\ result.status = "ok"
Failed == pc = "done" /\ result.status = "error" /\ result.out = <<>>

CallIdx == 1..Len(calls)

\* The inspected record of the container with this display name.
RecordOf(name) ==
    ContainerRecords[CHOOSE i \in 1..Len(ContainerRecords) :
                        Tail(ContainerRecords[i].Name) = name]

\* The names for which "Error generating config for container" was logged.
SkippedNames ==
    {logged[i].name : i \in {j \in 1..Len(logged) : logged[j].what = "container"}}

SentinelStrings ==
    { <<>>, <<"n", "u", "l", "l">>, <<"d", "e", "f", "a", "u", "l", "t">>,
      <<",">>, <<"n", "o">> }

\* The nine sentinel values, by the kind of the value: a string is a sentinel
\* when it is one of the five sentinel strings, a list or a mapping when it
\* is empty; a boolean is never one.
IsSentinel(value) ==
    CASE value.t \in {"string", "container.RestartPolicyMode"} ->
            value.v \in SentinelStrings
      [] value.t \in {"[]string", "strslice.StrSlice"} -> Len(value.v) = 0
      [] value.t = "map[string]string" -> DOMAIN value.v = {}
      [] OTHER -> FALSE

\* C1: for every container in the services map and each of the 17
\* attributes, the key is absent from the record if and only if the built
\* value is one of the nine sentinel values, and a key that is present holds
\* the built value unchanged.
C1_SentinelSuppression ==
    \A name \in DOMAIN structure :
      \A k \in Keys :
        /\ (k \notin DOMAIN structure[name]) <=> IsSentinel(built[name][k])
        /\ k \in DOMAIN structure[name] => structure[name][k] = built[name][k]

\* An unanchored, case-sensitive match of the filter in the name: a leading
\* "^" ties the match to the start of the name.
FilterMatches(filter, name) ==
    \/ filter = <<>>
    \/ /\ filter # <<>>
       /\ Head(filter) = "^"
       /\ \E j \in 0..Len(name) : SubSeq(name, 1, j) = Tail(filter)
    \/ /\ filter # <<>>
       /\ Head(filter) # "^"
       /\ \E i \in 1..(Len(name) + 1) :
            \E j \in 0..Len(name) : SubSeq(name, i, j) = filter

ListedNames == {Tail(containers[i].Name) : i \in 1..Len(containers)}

SectionOf(out, key) == {out[i].value : i \in {j \in 1..Len(out) : out[j].key = key}}

\* C2: on success the keys of the services map are exactly the display names
\* of the listed containers that match the filter and were not skipped; the
\* skipped containers contribute no network entry either, and the services
\* section of the output is that map.
C2_ServiceKeys ==
    Succeeded =>
      /\ DOMAIN structure =
           {n \in ListedNames : FilterMatches(containerFilter, n)} \ SkippedNames
      /\ SectionOf(result.out, "services") = {structure}
      /\ ~includeAllContainers =>
           DOMAIN networks \subseteq
             UNION {RecordOf(n).Networks : n \in DOMAIN structure}

\* C2 witness: a filtered run succeeded although the first matching
\* container was skipped, and the one after it is in the services map.
C2_Witness ==
    /\ Succeeded
    /\ containerFilter # <<>>
    /\ Len(containerNames) = 2
    /\ containerNames[1] \in SkippedNames
    /\ containerNames[2] \in DOMAIN structure
    /\ Len(containers) > Len(containerNames)

InvalidFilter == containerFilter # <<>> /\ \E i \in 1..Len(containerFilter) :
                                             containerFilter[i] = "("

NoInspectionIssued ==
    \A i \in CallIdx : calls[i].call \notin {"ContainerInspect", "NetworkInspect"}

\* C3 as stated: with an invalid filter the overall result is the
\* InvalidFilter error, never another error, and no inspection call is
\* issued, whatever the outcome of the container listing.
C3_InvalidFilterAlways ==
    InvalidFilter =>
      /\ NoInspectionIssued
      /\ Done => Failed /\ result.err = "invalid filter regex"

\* C3 amended: with an invalid filter the overall result is an error and no
\* document: the InvalidFilter error when the container listing succeeded,
\* the listing's error when it failed; no inspection call is issued.
C3_InvalidFilterError ==
    InvalidFilter =>
      /\ NoInspectionIssued
      /\ Done =>
           /\ Failed
           /\ result.err = IF calls[1].ok THEN "invalid filter regex" ELSE "runtime"

\* C3 witness: the listing returned containers and the run ended with the
\* InvalidFilter error.
C3_Witness ==
    /\ InvalidFilter
    /\ Done
    /\ containerNames # <<>>
    /\ result.err = "invalid filter regex"

\* C4: on success with includeAllContainers the networks map has exactly one
\* entry per listed host network, holding that network's detail fields, and
\* the networks section of the output is that map.
C4_HostWideNetworks ==
    (Succeeded /\ includeAllContainers) =>
      /\ DOMAIN networks = {hostNetworks[i] : i \in 1..Len(hostNetworks)}
      /\ \A n \in DOMAIN networks :
           LET r == NetworkResource(n) IN
           networks[n] = [name |-> n, scope |-> r.Scope, driver |-> r.Driver,
                          enable_ipv6 |-> r.EnableIPv6, internal |-> r.Internal,
                          ipam |-> [driver |-> r.IPAM.Driver,
                                    config |-> r.IPAM.Config]]
      /\ networks # NoMap => SectionOf(result.out, "networks") = {networks}

\* C4 witness: a host-wide run succeeded where a container attached to no
\* network was processed, a stub had been recorded for another container, and
\* the host has a network no processed container is attached to.
C4_Witness ==
    /\ Succeeded
    /\ includeAllContainers
    /\ \E n \in DOMAIN structure : RecordOf(n).Networks = {}
    /\ \E i \in CallIdx : calls[i].call = "NetworkInspect" /\ calls[i].at > 0
                          /\ calls[i].ok
    /\ \E n \in DOMAIN networks :
         \A s \in DOMAIN structure : n \notin RecordOf(s).Networks

\* C5: with includeAllContainers a failed network listing or host network
\* inspection ends the invocation with an error and no document; without
\* includeAllContainers no network listing and no host-wide inspection is
\* issued.
C5_HostNetworkFailureFatal ==
    /\ (\E i \in CallIdx : calls[i].at = -1 /\ ~calls[i].ok) => Failed
    /\ ~includeAllContainers =>
         \A i \in CallIdx : calls[i].call # "NetworkList" /\ calls[i].at # -1

\* C5 witness: every container was processed successfully, then the
\* inspection of a host network failed and the invocation returned an error.
C5_Witness ==
    /\ Failed
    /\ Len(containerNames) = 2
    /\ \A i \in 1..Len(containerNames) : containerNames[i] \in DOMAIN structure
    /\ \E i \in CallIdx : calls[i].call = "NetworkInspect" /\ calls[i].at = -1
                          /\ ~calls[i].ok

\* The rendering the volumes list holds for one mount.
ExpectedEntry(mount) ==
    CASE mount.Type = <<"b", "i", "n", "d">> ->
            mount.Source \o <<":">> \o mount.Destination
      [] mount.Type = <<"v", "o", "l", "u", "m", "e">> /\ createVolumes ->
            mount.Name \o <<":">> \o mount.Destination
      [] OTHER -> <<>>

Occurrences(list, x) == Cardinality({i \in 1..Len(list) : list[i] = x})

\* C6: the volumes list built for a container has one entry per mount, is in
\* ascending lexicographic order, and holds exactly the renderings of the
\* mounts: source:destination for a bind mount whatever createVolumes is,
\* name:destination for a volume mount when createVolumes is true, and an
\* empty entry for a volume mount when it is false and for any other type.
C6_Volumes ==
    \A name \in DOMAIN built :
      LET mounts == RecordOf(name).Mounts
          vols == built[name].volumes.v
          expected == [i \in 1..Len(mounts) |-> ExpectedEntry(mounts[i])]
      IN  /\ Len(vols) = Len(mounts)
          /\ \A i, j \in 1..Len(vols) : i < j => ~StrLess(vols[j], vols[i])
          /\ \A i \in 1..Len(vols) :
               Occurrences(vols, vols[i]) = Occurrences(expected, vols[i])

\* C6 witness: with createVolumes false, a container with a bind mount and a
\* volume mount was built, the volume mount gave an empty entry, and sorting
\* moved the entries.
C6_Witness ==
    /\ ~createVolumes
    /\ \E name \in DOMAIN built :
         LET mounts == RecordOf(name).Mounts
             vols == built[name].volumes.v
         IN  /\ \E i \in 1..Len(mounts) : mounts[i].Type = <<"b", "i", "n", "d">>
             /\ \E i \in 1..Len(mounts) :
                  mounts[i].Type = <<"v", "o", "l", "u", "m", "e">>
             /\ vols[1] = <<>>
             /\ vols # [i \in 1..Len(mounts) |-> ExpectedEntry(mounts[i])]

FailedListing(i) == calls[i].call = "ContainerList" /\ ~calls[i].ok

\* C7 as stated: a failure of any container listing, the initial one or one
\* issued while a container is processed, makes the invocation return an
\* error.
C7_AnyListingFailureFatal ==
    (Done /\ \E i \in CallIdx : FailedListing(i)) => Failed

\* C7 amended: a failure of the initial container listing makes the
\* invocation return an error and no document; a failure of a listing issued
\* while a container is processed is logged and skips that container only;
\* no call is issued twice for the same place of the invocation, so a failed
\* call is never retried.
C7_InitialListingFailureFatal ==
    /\ (\E i \in CallIdx : FailedListing(i) /\ calls[i].at = 0) => Failed
    /\ \A i \in CallIdx :
         (FailedListing(i) /\ calls[i].at > 0) =>
            /\ containerNames[calls[i].at] \in SkippedNames
            /\ containerNames[calls[i].at] \notin DOMAIN structure
            /\ result.status = "error" =>
                  \E j \in CallIdx : calls[j].at = -1 /\ ~calls[j].ok
    /\ \A i, j \in CallIdx :
         (i < j /\ ~calls[i].ok) =>
            <<calls[i].call, calls[i].arg, calls[i].at>> #
            <<calls[j].call, calls[j].arg, calls[j].at>>

\* C7 witness: a listing issued while a container was processed failed and
\* the invocation still returned a document with another container in it.
C7_Witness ==
    /\ Succeeded
    /\ \E i \in CallIdx : FailedListing(i) /\ calls[i].at > 0
    /\ structure # NoMap

SectionKeys(out) == [i \in 1..Len(out) |-> out[i].key]

\* C8: the volumes map is empty in every state, and a returned document
\* holds version, then services, then networks, the networks section being
\* left out exactly when the networks map is empty; it has no volumes section.
C8_NoVolumesSection ==
    /\ DOMAIN volumes = {}
    /\ Succeeded =>
         SectionKeys(result.out) =
           IF DOMAIN networks = {} THEN <<"version", "services">>
           ELSE <<"version", "services", "networks">>

\* C8 witness: with createVolumes true a container with a named-volume mount
\* is in the returned document, whose networks map is empty.
C8_Witness ==
    /\ Succeeded
    /\ createVolumes
    /\ \E name \in DOMAIN structure :
         \E i \in 1..Len(RecordOf(name).Mounts) :
            RecordOf(name).Mounts[i].Type = <<"v", "o", "l", "u", "m", "e">>
    /\ DOMAIN networks = {}

FailedStub(at, n) ==
    \E i \in CallIdx : /\ calls[i].call = "NetworkInspect" /\ calls[i].at = at
                       /\ calls[i].arg = n /\ ~calls[i].ok

\* C9: on success without includeAllContainers the keys of the networks map
\* are the networks that some container of the services map is attached to
\* and whose inspection for that container did not fail; each entry is the
\* stub {name, external: not internal}; a container with a failed network
\* inspection keeps its service entry.
C9_NetworkStubs ==
    (Succeeded /\ ~includeAllContainers) =>
      /\ DOMAIN networks =
           {n \in NetworkNamesAll :
              \E i \in 1..Len(containerNames) :
                 /\ containerNames[i] \in DOMAIN structure
                 /\ n \in RecordOf(containerNames[i]).Networks
                 /\ ~FailedStub(i, n)}
      /\ \A n \in DOMAIN networks :
           networks[n] = [name |-> n, external |-> ~NetworkResource(n).Internal]
      /\ \A i \in 1..Len(containerNames) :
           (\E n \in NetworkNamesAll : FailedStub(i, n)) =>
              containerNames[i] \in DOMAIN structure

\* C9 witness: one network inspection of a container failed, its other
\* network is recorded, the container is in the services map, and another
\* container was skipped.
C9_Witness ==
    /\ Succeeded
    /\ ~includeAllContainers
    /\ SkippedNames # {}
    /\ \E i \in 1..Len(containerNames) :
         /\ containerNames[i] \in DOMAIN structure
         /\ \E n \in NetworkNamesAll : FailedStub(i, n)
         /\ \E n \in DOMAIN networks : n \in RecordOf(containerNames[i]).Networks
    /\ Cardinality(DOMAIN networks) = 1

ImplicitDefault(mode) == mode = <<"d", "e", "f", "a", "u", "l", "t">>

\* C10: the network mode built for a container is the name of one of its
\* networks when its mode is the implicit default and it is attached to a
\* network, and its mode string verbatim otherwise; the network_mode key is
\* absent when the mode is the implicit default and there is no network, and
\* present with the resolved value when that value is not a sentinel.
C10_NetworkMode ==
    \A name \in DOMAIN built :
      LET c == RecordOf(name)
          resolved == built[name].network_mode.v
      IN  /\ IF ImplicitDefault(c.NetworkMode) /\ c.Networks # {}
             THEN resolved \in c.Networks
             ELSE resolved = c.NetworkMode
          /\ name \in DOMAIN structure =>
               /\ (ImplicitDefault(c.NetworkMode) /\ c.Networks = {}) =>
                     "network_mode" \notin DOMAIN structure[name]
               /\ resolved \notin SentinelStrings =>
                     /\ "network_mode" \in DOMAIN structure[name]
                     /\ structure[name].network_mode = [t |-> "string",
                                                        v |-> resolved]

\* C10 witness: the services map holds a container in default mode whose
\* key is the name of an attached network, one in default mode without a
\* network and without the key, and one with an explicit mode kept verbatim.
C10_Witness ==
    /\ \E name \in DOMAIN structure :
         /\ ImplicitDefault(RecordOf(name).NetworkMode)
         /\ "network_mode" \in DOMAIN structure[name]
         /\ structure[name].network_mode.v = <<"b", "e">>
    /\ \E name \in DOMAIN structure :
         /\ ImplicitDefault(RecordOf(name).NetworkMode)
         /\ "network_mode" \notin DOMAIN structure[name]
    /\ \E name \in DOMAIN structure :
         /\ ~ImplicitDefault(RecordOf(name).NetworkMode)
         /\ structure[name].network_mode.v = RecordOf(name).NetworkMode

====
